---- MODULE Spec2Model ----
(***************************************************************************)
(* Model of translate_comments.py: the comment/docstring scanner of        *)
(* CommentTranslator.translate_file, the translation gate and backend call *)
(* of translate_text, and the line splitter _split_code_comment.           *)
(*                                                                         *)
(* Text is a sequence of Unicode code points; a file's content is one such *)
(* sequence and its lines are what content.split('\n') yields.             *)
(***************************************************************************)
EXTENDS Integers, Sequences, FiniteSets, TLC

(***************************************************************************)
(* Characters the code names.                                              *)
(***************************************************************************)
NL == 10
SP == 32
DQ == 34
HASH == 35
SQ == 39
BSL == 92
ZhLo == 19968
ZhHi == 40959
MinVisible == 3
DelimPairLen == 6

\* '"""' and "'''"
DQ3 == <<DQ, DQ, DQ>>
SQ3 == <<SQ, SQ, SQ>>

(***************************************************************************)
(* Bounds of the model.                                                    *)
(***************************************************************************)
MaxSplitLen == 6
MaxLines == 3
MaxFiles == 2
MaxRuns == 2

(***************************************************************************)
(* Python's str operations, as the code uses them.                         *)
(***************************************************************************)
\* str.isspace for one character (the ASCII whitespace str.strip() removes)
IsSpace(c) == c \in {9, 10, 11, 12, 13, 28, 29, 30, 31, 32}

\* str.isalpha for one character: Latin letters and CJK ideographs
IsAlpha(c) == (c >= 65 /\ c <= 90) \/ (c >= 97 /\ c <= 122) \/ (c >= ZhLo /\ c <= ZhHi)

CharsOf(s) == {s[k] : k \in 1..Len(s)}

RECURSIVE LStripChars(_, _)
LStripChars(s, cs) ==
    IF s # <<>> /\ Head(s) \in cs THEN LStripChars(Tail(s), cs) ELSE s

RECURSIVE RStripChars(_, _)
RStripChars(s, cs) ==
    IF s # <<>> /\ s[Len(s)] \in cs THEN RStripChars(SubSeq(s, 1, Len(s) - 1), cs) ELSE s

StripChars(s, cs) == RStripChars(LStripChars(s, cs), cs)

RECURSIVE LStrip(_)
LStrip(s) == IF s # <<>> /\ IsSpace(Head(s)) THEN LStrip(Tail(s)) ELSE s

RECURSIVE RStrip(_)
RStrip(s) ==
    IF s # <<>> /\ IsSpace(s[Len(s)]) THEN RStrip(SubSeq(s, 1, Len(s) - 1)) ELSE s

Strip(s) == RStrip(LStrip(s))

\* s.startswith(p)
StartsWith(s, p) == Len(s) >= Len(p) /\ SubSeq(s, 1, Len(p)) = p

\* sub occurs in s at position k
OccursAt(s, sub, k) == k >= 1 /\ k + Len(sub) - 1 <= Len(s) /\ SubSeq(s, k, k + Len(sub) - 1) = sub

\* sub in s
Contains(s, sub) == \E k \in 1..(Len(s) + 1) : OccursAt(s, sub, k)

\* s.count(sub): non-overlapping occurrences, scanning from position k
RECURSIVE CountFrom(_, _, _)
CountFrom(s, sub, k) ==
    IF k + Len(sub) - 1 > Len(s) THEN 0
    ELSE IF OccursAt(s, sub, k) THEN 1 + CountFrom(s, sub, k + Len(sub))
    ELSE CountFrom(s, sub, k + 1)

Count(s, sub) == CountFrom(s, sub, 1)

\* s.split(sep) for a one-character separator
RECURSIVE SplitFrom(_, _, _, _, _)
SplitFrom(s, sep, k, cur, acc) ==
    IF k > Len(s) THEN Append(acc, cur)
    ELSE IF s[k] = sep THEN SplitFrom(s, sep, k + 1, <<>>, Append(acc, cur))
    ELSE SplitFrom(s, sep, k + 1, Append(cur, s[k]), acc)

Split(s, sep) == SplitFrom(s, sep, 1, <<>>, <<>>)

\* sep.join(ls) for a one-character separator
RECURSIVE Join(_, _)
Join(ls, sep) ==
    IF ls = <<>> THEN <<>>
    ELSE IF Len(ls) = 1 THEN ls[1]
    ELSE ls[1] \o <<sep>> \o Join(Tail(ls), sep)

\* ' ' * n
Spaces(n) == [k \in 1..n |-> SP]

\* len(line) - len(line.lstrip())
IndentOf(line) == Len(line) - Len(LStrip(line))

(***************************************************************************)
(* CommentTranslator._contains_chinese                                     *)
(***************************************************************************)
_contains_chinese(text) == \E k \in 1..Len(text) : text[k] >= ZhLo /\ text[k] <= ZhHi

(***************************************************************************)
(* CommentTranslator._split_code_comment                                   *)
(***************************************************************************)
\* mutant: the loop takes the first '#', quoted or not
RECURSIVE SplitLoopAnyHash(_, _, _, _)
SplitLoopAnyHash(line, i, in_string, string_char) ==
    IF i > Len(line) THEN 0
    ELSE IF line[i] = HASH THEN i
    ELSE SplitLoopAnyHash(line, i + 1, in_string, string_char)

\* mutant: a quote after a backslash opens and closes literals like any other
RECURSIVE SplitLoopNoEscape(_, _, _, _)
SplitLoopNoEscape(line, i, in_string, string_char) ==
    IF i > Len(line) THEN 0
    ELSE IF line[i] \in {DQ, SQ}
         THEN IF ~in_string THEN SplitLoopNoEscape(line, i + 1, TRUE, line[i])
              ELSE IF line[i] = string_char THEN SplitLoopNoEscape(line, i + 1, FALSE, 0)
              ELSE SplitLoopNoEscape(line, i + 1, in_string, string_char)
    ELSE IF line[i] = HASH /\ ~in_string THEN i
    ELSE SplitLoopNoEscape(line, i + 1, in_string, string_char)

\* the for loop: the index at which it returns (0: it runs to the end)
RECURSIVE SplitLoop(_, _, _, _)
SplitLoop(line, i, in_string, string_char) ==
    IF i > Len(line) THEN 0
    ELSE IF line[i] \in {DQ, SQ} /\ (i = 1 \/ line[i - 1] # BSL)
         THEN IF ~in_string THEN SplitLoop(line, i + 1, TRUE, line[i])
              ELSE IF line[i] = string_char THEN SplitLoop(line, i + 1, FALSE, 0)
              ELSE SplitLoop(line, i + 1, in_string, string_char)
    ELSE IF line[i] = HASH /\ ~in_string THEN i
    ELSE SplitLoop(line, i + 1, in_string, string_char)

SplitBoundary(line) ==
    IF HASH \notin CharsOf(line) THEN 0 ELSE SplitLoop(line, 1, FALSE, 0)

\* mutant: the code part keeps its trailing whitespace
SplitNoRStrip(line) ==
    LET i == SplitBoundary(line)
    IN  IF i = 0 THEN [i |-> 0, code_part |-> line, comment_part |-> <<>>]
        ELSE [i |-> i,
              code_part |-> SubSeq(line, 1, i - 1),
              comment_part |-> Strip(SubSeq(line, i + 1, Len(line)))]

_split_code_comment(line) ==
    LET i == SplitBoundary(line)
    IN  IF i = 0 THEN [i |-> 0, code_part |-> line, comment_part |-> <<>>]
        ELSE [i |-> i,
              code_part |-> RStrip(SubSeq(line, 1, i - 1)),
              comment_part |-> Strip(SubSeq(line, i + 1, Len(line)))]

(***************************************************************************)
(* The translation backend (client.chat.completions.create), seen from     *)
(* translate_text: the call raises, answers with no choices, answers with  *)
(* a choice whose content is not text, or answers with a content.          *)
(***************************************************************************)
\* the fixed Chinese answer of a backend stub
ZhStub == <<20013, 25991>>
\* a Chinese answer of two paragraphs with an empty line between them, wrapped
\* in blanks and quotes
ZhWrapped == <<SP, DQ, 20013, NL, NL, 25991, DQ, SP>>

NoResp == [kind |-> "none", content |-> <<>>]
Ok(c) == [kind |-> "ok", content |-> c]
\* create() raises; response.choices is empty; choices[0].message.content is None
FailKinds == {"raise", "nochoices", "malformed"}
Failures == {[kind |-> k, content |-> <<>>] : k \in FailKinds}

\* what the backend may answer to a call with `text`
Responses(text, isStub) ==
    IF isStub THEN {Ok(ZhStub)}
    ELSE Failures \cup {Ok(ZhWrapped), Ok(<<>>), Ok(text)}

\* what the model remembers of a response: whether the call failed, and the content
Outcome(resp) ==
    [kind |-> IF resp.kind \in FailKinds THEN "failed" ELSE resp.kind, content |-> resp.content]

(***************************************************************************)
(* CommentTranslator.translate_text                                        *)
(***************************************************************************)
\* the two early returns: the text is never sent to the backend
GateRejects(text) ==
    \/ _contains_chinese(text)
    \/ Len(Strip(text)) < MinVisible
    \/ ~(\E k \in 1..Len(text) : IsAlpha(text[k]))

\* mutant: the try block has no except clause, so an exception of create() or
\* of content.strip() leaves translate_text
BackendResultUncaught(text, resp) ==
    IF resp.kind = "ok"
    THEN [raised |-> FALSE, value |-> StripChars(Strip(resp.content), {DQ, SQ})]
    ELSE [raised |-> resp.kind \in {"raise", "malformed"}, value |-> text]

\* the try block, given the backend's response: what is returned, and whether
\* an exception leaves translate_text
BackendResult(text, resp) ==
    IF resp.kind = "ok"
    THEN [raised |-> FALSE, value |-> StripChars(Strip(resp.content), {DQ, SQ})]
    ELSE [raised |-> FALSE, value |-> text]

translate_text(text, resp) ==
    IF GateRejects(text) THEN [raised |-> FALSE, value |-> text, called |-> FALSE]
    ELSE LET r == BackendResult(text, resp)
         IN  [raised |-> r.raised, value |-> r.value, called |-> TRUE]

(***************************************************************************)
(* CommentTranslator.translate_file: the pieces of the loop body           *)
(***************************************************************************)
IsDocStart(stripped) == StartsWith(stripped, DQ3) \/ StartsWith(stripped, SQ3)

DelimiterOf(line) == IF Contains(line, DQ3) THEN DQ3 ELSE SQ3

IsSingleLineDoc(stripped, delimiter) ==
    Count(stripped, delimiter) >= 2 /\ Len(stripped) > DelimPairLen

\* stripped.strip(delimiter)
SingleDocContent(stripped, delimiter) == StripChars(stripped, CharsOf(delimiter))

RewriteSingleDoc(line, delimiter, translated) ==
    Spaces(IndentOf(line)) \o delimiter \o translated \o delimiter

RewriteComment(code_part, translated_comment) ==
    code_part \o <<SP, SP, HASH, SP>> \o translated_comment

\* doc_content_lines of a closed block
RECURSIVE DocContentLines(_, _, _)
DocContentLines(dlines, delimiter, j) ==
    IF j > Len(dlines) THEN <<>>
    ELSE LET content ==
                 IF j = 1 THEN LStripChars(Strip(dlines[j]), CharsOf(delimiter))
                 ELSE IF j = Len(dlines) THEN RStripChars(Strip(dlines[j]), CharsOf(delimiter))
                 ELSE Strip(dlines[j])
             keep == (j # 1 /\ j # Len(dlines)) \/ content # <<>>
         IN  (IF keep THEN <<content>> ELSE <<>>) \o DocContentLines(dlines, delimiter, j + 1)

BlockContent(dlines, delimiter) == Join(DocContentLines(dlines, delimiter, 1), NL)

\* IndentNonBlank without the test of trans_line.strip(): blank lines are kept
RECURSIVE IndentEveryLine(_, _)
IndentEveryLine(tlines, indent) ==
    IF tlines = <<>> THEN <<>>
    ELSE <<Spaces(indent) \o Head(tlines)>> \o IndentEveryLine(Tail(tlines), indent)

RECURSIVE IndentNonBlank(_, _)
IndentNonBlank(tlines, indent) ==
    IF tlines = <<>> THEN <<>>
    ELSE (IF Strip(Head(tlines)) # <<>> THEN <<Spaces(indent) \o Head(tlines)>> ELSE <<>>)
         \o IndentNonBlank(Tail(tlines), indent)

RewriteBlock(dlines, delimiter, translated_doc) ==
    LET indent == IndentOf(dlines[1])
    IN  <<Spaces(indent) \o delimiter>>
        \o IndentNonBlank(Split(translated_doc, NL), indent)
        \o <<Spaces(indent) \o delimiter>>

(***************************************************************************)
(* Input files: every sequence of at most MaxLines lines of LinePool.      *)
(* D stands for a double quote and S for a single quote in the comments.   *)
(***************************************************************************)
LinePool ==
    << <<120, 61, 49, SP, HASH, SP, 115, 101, 116>>,               \* x=1 # set
       <<SP, SP, SP, SP, HASH, SP, 110, 111, 116, 101>>,           \*     # note
       <<120, SP, HASH, SP, SP, 49, 50>>,                          \* x #  12
       <<HASH, SP, 20013, 25991>>,                                 \* # zh zh
       <<SP, SP, DQ, DQ, DQ, 68, 111, 99, DQ, DQ, DQ>>,            \*   DDDDocDDD
       <<SP, SP, DQ, DQ, DQ, 73, 110, 116, 114, 111>>,             \*   DDDIntro
       <<SP, SP, 101, 110, 100, 46, DQ, DQ, DQ>>,                  \*   end.DDD
       <<DQ, DQ, DQ>>,                                             \* DDD
       <<120, SP, 61, SP, 49>>,                                    \* x = 1
       <<>>,                                                       \* (empty line)
       <<SQ, SQ, SQ, 49, DQ, DQ, DQ>>,                             \* SSS1DDD
       <<DQ, DQ, DQ, DQ, HASH, 20013>>,                            \* DDDD#zh
       <<SQ, SQ, SQ>>,                                             \* SSS
       <<DQ, DQ, DQ, 49, 50, DQ, DQ, DQ, 51>> >>                   \* DDD12DDD3

Files ==
    UNION {{[k \in 1..n |-> LinePool[f[k]]] : f \in [1..n -> 1..Len(LinePool)]} : n \in 1..MaxLines}

\* every line over SplitAlphabet of at most MaxSplitLen characters
SplitAlphabet == {97, SP, HASH, DQ, SQ, BSL}
SplitInputs == UNION {[1..n -> SplitAlphabet] : n \in 0..MaxSplitLen}

(***************************************************************************)
(* State.  Line indices are 1-based: Python's i is i - 1 here.             *)
(***************************************************************************)
VARIABLES
    disk,                 \* the content on disk of every file, by path
    python_files,         \* main: the paths find_python_files returned, in order
    file_path,            \* the path translate_file was called with
    file_idx,             \* main: position in python_files of the next file
    main_pc,              \* main: "direct" when translate_file is called without main
    args_dry_run,         \* main: args.dry_run
    success_count,
    fail_count,
    disk0,                \* the content on disk before anything ran
    done_log,             \* main: per finished file, its path, error and content
    stub,                 \* the backend is a stub answering ZhStub to every call
    run,                  \* calls of translate_file made so far
    pc,                   \* "ret": outside translate_file; "loop": in its for loop
    dry_run,
    result,               \* what translate_file returned: "none", "True" or "False"
    io_error,             \* the I/O error of the last call: "none", "read", "write"
    original_content,
    lines,
    i,
    translated_lines,
    in_docstring,
    docstring_delimiter,
    docstring_lines,
    docstring_start_idx,
    translated_content,
    prev_content,         \* translated_content of the call before this one
    calls,                \* backend calls of this call of translate_file
    spans,                \* the regions the loop has emitted, in order
    split_line,           \* argument of a lone call of _split_code_comment
    split_pc,
    split_ret

fileVars == <<disk, stub, run, pc, dry_run, result, io_error, original_content, lines, i,
              translated_lines, in_docstring, docstring_delimiter, docstring_lines,
              docstring_start_idx, translated_content, prev_content, calls, spans>>
splitVars == <<split_line, split_pc, split_ret>>
mainVars == <<python_files, file_path, file_idx, main_pc, args_dry_run, success_count,
              fail_count, disk0, done_log>>
vars == <<fileVars, splitVars, mainVars>>

\* repeated calls on the same file are explored with the stub backend
RunLimit == IF stub THEN MaxRuns ELSE 1

\* stands for "no content": no text holds a negative code point
NoContent == <<-1>>

NoSplit == [i |-> 0, code_part |-> <<>>, comment_part |-> <<>>]

\* no call of translate_file has been made
NoCall ==
    /\ run = 0
    /\ pc = "ret"
    /\ dry_run = FALSE
    /\ result = "none"
    /\ io_error = "none"
    /\ original_content = <<>>
    /\ lines = <<>>
    /\ i = 1
    /\ translated_lines = <<>>
    /\ in_docstring = FALSE
    /\ docstring_delimiter = <<>>
    /\ docstring_lines = <<>>
    /\ docstring_start_idx = 1
    /\ translated_content = <<>>
    /\ prev_content = NoContent
    /\ calls = <<>>
    /\ spans = <<>>

FileInit(file) ==
    /\ disk = <<Join(file, NL)>>
    /\ NoCall

SplitIdle ==
    /\ split_line = <<>>
    /\ split_pc = "idle"
    /\ split_ret = NoSplit

\* translate_file is called on the one file, main is not running
MainAbsent ==
    /\ python_files = <<1>>
    /\ file_path = 1
    /\ file_idx = 1
    /\ main_pc = "direct"
    /\ args_dry_run = FALSE
    /\ success_count = 0
    /\ fail_count = 0
    /\ disk0 = disk
    /\ done_log = <<>>

Init ==
    /\ \E file \in Files : FileInit(file)
    /\ stub \in BOOLEAN
    /\ SplitIdle
    /\ MainAbsent

(***************************************************************************)
(* translate_file, lines 108-120: read the file and set up the loop.       *)
(***************************************************************************)
Enter(path, d) ==
    /\ pc = "ret"
    /\ run' = run + 1
    /\ dry_run' = d
    /\ original_content' = disk[path]
    /\ lines' = Split(disk[path], NL)
    /\ translated_lines' = <<>>
    /\ in_docstring' = FALSE
    /\ docstring_delimiter' = <<>>
    /\ docstring_lines' = <<>>
    /\ docstring_start_idx' = 1
    /\ i' = 1
    /\ pc' = "loop"
    /\ result' = "none"
    /\ io_error' = "none"
    /\ prev_content' = IF run >= 1 /\ io_error # "read" THEN translated_content ELSE NoContent
    /\ calls' = <<>>
    /\ spans' = <<>>
    /\ UNCHANGED <<disk, stub, translated_content, splitVars>>

\* open()/read() raises: the except clause of line 232 returns False
EnterFail(d) ==
    /\ pc = "ret"
    /\ run' = run + 1
    /\ dry_run' = d
    /\ result' = "False"
    /\ io_error' = "read"
    /\ UNCHANGED <<disk, stub, pc, original_content, lines, i, translated_lines, in_docstring,
                   docstring_delimiter, docstring_lines, docstring_start_idx,
                   translated_content, prev_content, calls, spans, splitVars>>

\* a call of translate_file on the one file, without main
Start(d) ==
    /\ main_pc = "direct"
    /\ run < RunLimit
    /\ Enter(file_path, d)
    /\ UNCHANGED mainVars

ReadFail(d) ==
    /\ main_pc = "direct"
    /\ run < RunLimit
    /\ EnterFail(d)
    /\ UNCHANGED mainVars

(***************************************************************************)
(* One iteration of the for loop, lines 122-205.                           *)
(***************************************************************************)
InLoop == pc = "loop" /\ i <= Len(lines)

Span(kind, s, e, text, t, resp, n) ==
    [kind |-> kind, s |-> s, e |-> e, text |-> text, call |-> t.called,
     resp |-> IF t.called THEN Outcome(resp) ELSE NoResp, o |-> Len(translated_lines) + 1, n |-> n]

NotCalled == [raised |-> FALSE, value |-> <<>>, called |-> FALSE]

\* the effect of one iteration that emits `out` for the region `span`, after a
\* call t of translate_text (an exception leaving it ends translate_file at the
\* except clause of line 232)
Emit(out, span, t, text, context) ==
    /\ calls' = IF t.called THEN Append(calls, [line |-> i, text |-> text, context |-> context])
                ELSE calls
    /\ IF t.raised
       THEN /\ pc' = "ret"
            /\ result' = "False"
            /\ UNCHANGED <<translated_lines, spans, i>>
       ELSE /\ translated_lines' = translated_lines \o out
            /\ spans' = Append(spans, span)
            /\ i' = i + 1
            /\ UNCHANGED <<pc, result>>

LoopFrame == UNCHANGED <<disk, stub, run, dry_run, io_error, original_content, lines,
                         translated_content, prev_content, splitVars, mainVars>>

\* lines 133-141: a single-line docstring
DocstringSingle ==
    /\ InLoop /\ ~in_docstring
    /\ LET line == lines[i]
           stripped == Strip(line)
           delimiter == DelimiterOf(line)
           doc_content == SingleDocContent(stripped, delimiter)
       IN  /\ IsDocStart(stripped)
           /\ IsSingleLineDoc(stripped, delimiter)
           /\ IF doc_content # <<>> /\ ~_contains_chinese(doc_content)
              THEN \E resp \in Responses(doc_content, stub) :
                      LET t == translate_text(doc_content, resp)
                      IN  Emit(<<RewriteSingleDoc(line, delimiter, t.value)>>,
                               Span("docsingle", i, i, doc_content, t, resp, 1),
                               t, doc_content, "docstring")
              ELSE Emit(<<line>>, Span("docsingle", i, i, doc_content, NotCalled, NoResp, 1),
                        NotCalled, doc_content, "docstring")
    /\ UNCHANGED <<in_docstring, docstring_delimiter, docstring_lines, docstring_start_idx>>
    /\ LoopFrame

\* DocstringOpen that starts the block's lines empty, without the opening line
DocstringOpenDropsLine ==
    /\ InLoop /\ ~in_docstring
    /\ LET line == lines[i]
           stripped == Strip(line)
           delimiter == DelimiterOf(line)
       IN  /\ IsDocStart(stripped)
           /\ ~IsSingleLineDoc(stripped, delimiter)
           /\ in_docstring' = TRUE
           /\ docstring_delimiter' = delimiter
           /\ docstring_lines' = <<>>
           /\ docstring_start_idx' = i
    /\ i' = i + 1
    /\ UNCHANGED <<pc, result, translated_lines, calls, spans>>
    /\ LoopFrame

\* lines 142-147: a multi-line docstring opens
DocstringOpen ==
    /\ InLoop /\ ~in_docstring
    /\ LET line == lines[i]
           stripped == Strip(line)
           delimiter == DelimiterOf(line)
       IN  /\ IsDocStart(stripped)
           /\ ~IsSingleLineDoc(stripped, delimiter)
           /\ in_docstring' = TRUE
           /\ docstring_delimiter' = delimiter
           /\ docstring_lines' = <<line>>
           /\ docstring_start_idx' = i
    /\ i' = i + 1
    /\ UNCHANGED <<pc, result, translated_lines, calls, spans>>
    /\ LoopFrame

\* lines 149-157: a line holding a '#'
InlineComment ==
    /\ InLoop /\ ~in_docstring
    /\ LET line == lines[i]
           sp == _split_code_comment(line)
       IN  /\ ~IsDocStart(Strip(line))
           /\ HASH \in CharsOf(line)
           /\ IF sp.comment_part # <<>> /\ ~_contains_chinese(sp.comment_part)
              THEN \E resp \in Responses(sp.comment_part, stub) :
                      LET t == translate_text(sp.comment_part, resp)
                      IN  Emit(<<RewriteComment(sp.code_part, t.value)>>,
                               Span("comment", i, i, sp.comment_part, t, resp, 1),
                               t, sp.comment_part, "comment")
              ELSE Emit(<<line>>, Span("comment", i, i, sp.comment_part, NotCalled, NoResp, 1),
                        NotCalled, sp.comment_part, "comment")
    /\ UNCHANGED <<in_docstring, docstring_delimiter, docstring_lines, docstring_start_idx>>
    /\ LoopFrame

\* lines 158-159: any other line
PassThrough ==
    /\ InLoop /\ ~in_docstring
    /\ LET line == lines[i]
       IN  /\ ~IsDocStart(Strip(line))
           /\ HASH \notin CharsOf(line)
           /\ Emit(<<line>>, Span("pass", i, i, <<>>, NotCalled, NoResp, 1),
                   NotCalled, <<>>, "none")
    /\ UNCHANGED <<in_docstring, docstring_delimiter, docstring_lines, docstring_start_idx>>
    /\ LoopFrame

\* BlockAccumulate that also passes the line through to the output
BlockAccumulateAlsoEmits ==
    /\ InLoop /\ in_docstring
    /\ ~Contains(Strip(lines[i]), docstring_delimiter)
    /\ docstring_lines' = Append(docstring_lines, lines[i])
    /\ translated_lines' = Append(translated_lines, lines[i])
    /\ i' = i + 1
    /\ UNCHANGED <<pc, result, calls, spans, in_docstring,
                   docstring_delimiter, docstring_start_idx>>
    /\ LoopFrame

\* BlockAccumulate that takes only a line ending with the delimiter as the end
BlockAccumulateUnlessEndsWith ==
    /\ InLoop /\ in_docstring
    /\ LET stripped == Strip(lines[i])
       IN  ~OccursAt(stripped, docstring_delimiter,
                     Len(stripped) - Len(docstring_delimiter) + 1)
    /\ docstring_lines' = Append(docstring_lines, lines[i])
    /\ i' = i + 1
    /\ UNCHANGED <<pc, result, translated_lines, calls, spans, in_docstring,
                   docstring_delimiter, docstring_start_idx>>
    /\ LoopFrame

\* lines 160-164: inside a docstring, a line without the delimiter
BlockAccumulate ==
    /\ InLoop /\ in_docstring
    /\ ~Contains(Strip(lines[i]), docstring_delimiter)
    /\ docstring_lines' = Append(docstring_lines, lines[i])
    /\ i' = i + 1
    /\ UNCHANGED <<pc, result, translated_lines, calls, spans, in_docstring,
                   docstring_delimiter, docstring_start_idx>>
    /\ LoopFrame

\* lines 160-205: inside a docstring, a line with the delimiter closes it
BlockClose ==
    /\ InLoop /\ in_docstring
    /\ Contains(Strip(lines[i]), docstring_delimiter)
    /\ LET dlines == Append(docstring_lines, lines[i])
           doc_content == BlockContent(dlines, docstring_delimiter)
       IN  IF doc_content # <<>> /\ ~_contains_chinese(doc_content)
           THEN \E resp \in Responses(doc_content, stub) :
                   LET t == translate_text(doc_content, resp)
                       out == RewriteBlock(dlines, docstring_delimiter, t.value)
                   IN  /\ Emit(out, Span("docmulti", docstring_start_idx, i, doc_content,
                                         t, resp, Len(out)),
                               t, doc_content, "docstring")
                       /\ docstring_lines' = IF t.raised THEN dlines ELSE <<>>
           ELSE /\ Emit(dlines, Span("docmulti", docstring_start_idx, i, doc_content,
                                     NotCalled, NoResp, Len(dlines)),
                        NotCalled, doc_content, "docstring")
                /\ docstring_lines' = <<>>
    /\ in_docstring' = FALSE
    /\ UNCHANGED <<docstring_delimiter, docstring_start_idx>>
    /\ LoopFrame

(***************************************************************************)
(* translate_file, lines 207-234: join, compare, and write or not.         *)
(***************************************************************************)
LoopDone == pc = "loop" /\ i > Len(lines)

FinishFrame == UNCHANGED <<stub, run, dry_run, original_content, lines, i, translated_lines,
                           in_docstring, docstring_delimiter, docstring_lines,
                           docstring_start_idx, prev_content, calls, spans, splitVars,
                           mainVars>>

\* FinishNoWrite without the test of dry_run: the content is written in a dry run too
FinishWritesInDryRun ==
    /\ LoopDone
    /\ translated_content' = Join(translated_lines, NL)
    /\ dry_run \/ translated_content' = original_content
    /\ disk' = [disk EXCEPT ![file_path] = translated_content']
    /\ pc' = "ret"
    /\ result' = "True"
    /\ UNCHANGED io_error
    /\ FinishFrame

\* the content is not written: a dry run, or nothing changed
FinishNoWrite ==
    /\ LoopDone
    /\ translated_content' = Join(translated_lines, NL)
    /\ dry_run \/ translated_content' = original_content
    /\ pc' = "ret"
    /\ result' = "True"
    /\ UNCHANGED <<disk, io_error>>
    /\ FinishFrame

\* lines 223-227: the changed content is written to the same path
FinishWrite ==
    /\ LoopDone
    /\ translated_content' = Join(translated_lines, NL)
    /\ ~dry_run /\ translated_content' # original_content
    /\ disk' = [disk EXCEPT ![file_path] = translated_content']
    /\ pc' = "ret"
    /\ result' = "True"
    /\ UNCHANGED io_error
    /\ FinishFrame

\* open(file_path, 'w') or f.write raises: the except clause returns False;
\* open() has truncated the file when it is f.write that fails
WriteFail(truncated) ==
    /\ LoopDone
    /\ translated_content' = Join(translated_lines, NL)
    /\ ~dry_run /\ translated_content' # original_content
    /\ disk' = IF truncated THEN [disk EXCEPT ![file_path] = <<>>] ELSE disk
    /\ pc' = "ret"
    /\ result' = "False"
    /\ io_error' = "write"
    /\ FinishFrame

Next ==
    \/ \E d \in BOOLEAN : Start(d)
    \/ \E d \in BOOLEAN : ReadFail(d)
    \/ DocstringSingle
    \/ DocstringOpen
    \/ InlineComment
    \/ PassThrough
    \/ BlockAccumulate
    \/ BlockClose
    \/ FinishNoWrite
    \/ FinishWrite
    \/ \E tr \in BOOLEAN : WriteFail(tr)

Spec == Init /\ [][Next]_vars

(***************************************************************************)
(* main, lines 370-405: the batch over the files find_python_files found.  *)
(* The paths are 1..n in the order of the list.                            *)
(***************************************************************************)
BatchContents ==
    { LinePool[1], LinePool[9], LinePool[5],
      Join(<<LinePool[8], LinePool[9]>>, NL),
      Join(<<LinePool[6], LinePool[7]>>, NL) }

BatchInit ==
    /\ \E n \in 0..MaxFiles :
          /\ disk \in [1..n -> BatchContents]
          /\ python_files = [k \in 1..n |-> k]
    /\ NoCall
    /\ stub \in BOOLEAN
    /\ SplitIdle
    /\ file_path = 0
    /\ file_idx = 1
    /\ main_pc = "found"
    /\ args_dry_run \in BOOLEAN
    /\ success_count = 0
    /\ fail_count = 0
    /\ disk0 = disk
    /\ done_log = <<>>

\* lines 372-374: no file found, sys.exit(0)
MainNoFiles ==
    /\ main_pc = "found"
    /\ python_files = <<>>
    /\ main_pc' = "exit0"
    /\ UNCHANGED <<fileVars, splitVars, python_files, file_path, file_idx, args_dry_run,
                   success_count, fail_count, disk0, done_log>>

\* lines 376-390: the counters are set up
MainBegin ==
    /\ main_pc = "found"
    /\ python_files # <<>>
    /\ main_pc' = "loop"
    /\ success_count' = 0
    /\ fail_count' = 0
    /\ file_idx' = 1
    /\ UNCHANGED <<fileVars, splitVars, python_files, file_path, args_dry_run, disk0,
                   done_log>>

MainCallFrame ==
    /\ main_pc = "loop"
    /\ file_idx <= Len(python_files)
    /\ file_path' = python_files[file_idx]
    /\ main_pc' = "call"
    /\ UNCHANGED <<python_files, file_idx, args_dry_run, success_count, fail_count, disk0,
                   done_log>>

\* lines 392-395: translate_file is called on the next file of the list
MainCall ==
    /\ MainCallFrame
    /\ Enter(python_files[file_idx], args_dry_run)

MainCallFail ==
    /\ MainCallFrame
    /\ EnterFail(args_dry_run)

\* MainCount that leaves the loop at the first file that failed
MainCountStopsAtFailure ==
    /\ main_pc = "call"
    /\ pc = "ret"
    /\ success_count' = IF result = "True" THEN success_count + 1 ELSE success_count
    /\ fail_count' = IF result = "True" THEN fail_count ELSE fail_count + 1
    /\ file_idx' = IF result = "True" THEN file_idx + 1 ELSE Len(python_files) + 1
    /\ main_pc' = "loop"
    /\ done_log' = Append(done_log, [path |-> file_path, io_error |-> io_error,
                                     dry_run |-> dry_run, content |-> translated_content])
    /\ UNCHANGED <<fileVars, splitVars, python_files, file_path, args_dry_run, disk0>>

\* lines 395-398: translate_file has returned, the file is counted
MainCount ==
    /\ main_pc = "call"
    /\ pc = "ret"
    /\ success_count' = IF result = "True" THEN success_count + 1 ELSE success_count
    /\ fail_count' = IF result = "True" THEN fail_count ELSE fail_count + 1
    /\ file_idx' = file_idx + 1
    /\ main_pc' = "loop"
    /\ done_log' = Append(done_log, [path |-> file_path, io_error |-> io_error,
                                     dry_run |-> dry_run, content |-> translated_content])
    /\ UNCHANGED <<fileVars, splitVars, python_files, file_path, args_dry_run, disk0>>

\* lines 400-405: the list is exhausted, the tally is printed
MainDone ==
    /\ main_pc = "loop"
    /\ file_idx > Len(python_files)
    /\ main_pc' = "done"
    /\ UNCHANGED <<fileVars, splitVars, python_files, file_path, file_idx, args_dry_run,
                   success_count, fail_count, disk0, done_log>>

BatchNext ==
    \/ MainNoFiles
    \/ MainBegin
    \/ MainCall
    \/ MainCallFail
    \/ DocstringSingle
    \/ DocstringOpen
    \/ InlineComment
    \/ PassThrough
    \/ BlockAccumulate
    \/ BlockClose
    \/ FinishNoWrite
    \/ FinishWrite
    \/ \E tr \in BOOLEAN : WriteFail(tr)
    \/ MainCount
    \/ MainDone

\* the program counters of main and of translate_file
pcVars == <<main_pc, pc, i>>

\* a step of BatchNext, by the program counters it moves: an iteration of the
\* for loop, the end of translate_file, a step of main
Progress ==
    \/ InLoop /\ i' = i + 1 /\ pc' = pc /\ main_pc' = main_pc
    \/ LoopDone /\ pc' = "ret" /\ i' = i /\ main_pc' = main_pc
    \/ main_pc = "found" /\ main_pc' \in {"exit0", "loop"} /\ pc' = pc /\ i' = i
    \/ main_pc = "loop" /\ main_pc' = "call" /\ pc' = "loop" /\ i' = 1
    \/ main_pc = "loop" /\ main_pc' = "call" /\ pc' = pc /\ i' = i
    \/ main_pc = "loop" /\ main_pc' = "done" /\ pc' = pc /\ i' = i
    \/ main_pc = "call" /\ pc = "ret" /\ main_pc' = "loop" /\ pc' = pc /\ i' = i

\* the process is not stopped and every backend call returns or raises, so the
\* step that is possible is taken in the end
BatchSpec == BatchInit /\ [][BatchNext]_vars /\ WF_pcVars(Progress)

(***************************************************************************)
(* The batch with a kill of the process at any point.  The write of lines  *)
(* 223-227 is open(file_path, 'w'), which truncates the file, then         *)
(* f.write and the close that flushes: a kill in between leaves a prefix   *)
(* of the content on disk.                                                 *)
(***************************************************************************)
Kill ==
    /\ main_pc \in {"found", "loop", "call"}
    /\ main_pc' = "killed"
    /\ pc' = "dead"
    /\ UNCHANGED <<disk, stub, run, dry_run, result, io_error, original_content, lines, i,
                   translated_lines, in_docstring, docstring_delimiter, docstring_lines,
                   docstring_start_idx, translated_content, prev_content, calls, spans,
                   splitVars, python_files, file_path, file_idx, args_dry_run,
                   success_count, fail_count, disk0, done_log>>

KillDuringWrite ==
    /\ main_pc = "call"
    /\ LoopDone
    /\ translated_content' = Join(translated_lines, NL)
    /\ ~dry_run /\ translated_content' # original_content
    /\ \E k \in 0..(Len(translated_content') - 1) :
          disk' = [disk EXCEPT ![file_path] = SubSeq(translated_content', 1, k)]
    /\ main_pc' = "killed"
    /\ pc' = "dead"
    /\ UNCHANGED <<stub, run, dry_run, result, io_error, original_content, lines, i,
                   translated_lines, in_docstring, docstring_delimiter, docstring_lines,
                   docstring_start_idx, prev_content, calls, spans,
                   splitVars, python_files, file_path, file_idx, args_dry_run,
                   success_count, fail_count, disk0, done_log>>

KillNext == BatchNext \/ Kill \/ KillDuringWrite

KillSpec == BatchInit /\ [][KillNext]_vars

(***************************************************************************)
(* A lone call of _split_code_comment on every line of SplitInputs.        *)
(***************************************************************************)
SplitInit ==
    /\ FileInit(<<>>)
    /\ MainAbsent
    /\ stub = FALSE
    /\ split_line \in SplitInputs
    /\ split_pc = "call"
    /\ split_ret = NoSplit

SplitCall ==
    /\ split_pc = "call"
    /\ split_ret' = _split_code_comment(split_line)
    /\ split_pc' = "ret"
    /\ UNCHANGED <<fileVars, mainVars, split_line>>

SplitNext == SplitCall

SplitSpec == SplitInit /\ [][SplitNext]_vars

(***************************************************************************)
(* Quoted literals, stated on the line itself.  QuoteState(line, k) is the *)
(* literal open after the first k characters: 0 outside every literal,     *)
(* else the quote character that opened it.  A quote after a backslash     *)
(* neither opens nor closes, and the other kind of quote does not close.   *)
(***************************************************************************)
RECURSIVE QuoteState(_, _)
QuoteState(line, k) ==
    IF k = 0 THEN 0
    ELSE LET prev == QuoteState(line, k - 1)
             escaped == k > 1 /\ line[k - 1] = BSL
         IN  IF line[k] \in {DQ, SQ} /\ ~escaped
             THEN (IF prev = 0 THEN line[k] ELSE IF prev = line[k] THEN 0 ELSE prev)
             ELSE prev

UnquotedHashAt(line, p) == line[p] = HASH /\ QuoteState(line, p - 1) = 0
UnquotedHashes(line) == {p \in 1..Len(line) : UnquotedHashAt(line, p)}
MinOf(S) == CHOOSE x \in S : \A y \in S : x <= y
Before(line, p) == SubSeq(line, 1, p - 1)
After(line, p) == SubSeq(line, p + 1, Len(line))

SplitReturned == split_pc = "ret"

\* C8: a line with no '#' outside a quoted literal (no '#' at all, or only
\* quoted ones) is returned whole as the code part, with an empty comment part.
C8_NoUnquotedHashKeepsLine ==
    (SplitReturned /\ UnquotedHashes(split_line) = {})
        => (split_ret.code_part = split_line /\ split_ret.comment_part = <<>>)

\* a returned call on a line whose only '#' characters are inside literals
C8_Witness ==
    /\ SplitReturned
    /\ UnquotedHashes(split_line) = {}
    /\ HASH \in CharsOf(split_line)
    /\ split_ret.code_part = split_line

\* C9: the comment boundary is never a '#' inside a quoted literal: it is the
\* first '#' outside every literal (escaped quotes neither open nor close, the
\* other kind of quote does not close), and there is none exactly when the line
\* has no such '#'.
C9_BoundaryIsFirstUnquotedHash ==
    SplitReturned =>
        /\ split_ret.i # 0 => UnquotedHashAt(split_line, split_ret.i)
        /\ UnquotedHashes(split_line) # {} => split_ret.i = MinOf(UnquotedHashes(split_line))

\* a returned call that skipped a quoted '#' and took a later, unquoted one
C9_Witness ==
    /\ SplitReturned
    /\ split_ret.i # 0
    /\ \E p \in 1..(split_ret.i - 1) : split_line[p] = HASH
    /\ split_ret.comment_part # <<>>

\* C10 as stated: the code part is the text before the first unquoted '#'
\* right-trimmed, the comment part the text after it left-trimmed, and nothing
\* else is altered.
C10_AsStated ==
    (SplitReturned /\ UnquotedHashes(split_line) # {}) =>
        LET p == MinOf(UnquotedHashes(split_line))
        IN  /\ split_ret.code_part = RStrip(Before(split_line, p))
            /\ split_ret.comment_part = LStrip(After(split_line, p))

\* C10 amended: the comment part is the text after the first unquoted '#' with
\* its leading and its trailing whitespace removed.
C10_SplitTrimsBothEnds ==
    (SplitReturned /\ UnquotedHashes(split_line) # {}) =>
        LET p == MinOf(UnquotedHashes(split_line))
        IN  /\ split_ret.code_part = RStrip(Before(split_line, p))
            /\ split_ret.comment_part = Strip(After(split_line, p))

\* a returned call that trimmed the code part on the right and the comment part
\* on both sides
C10_Witness ==
    /\ SplitReturned
    /\ UnquotedHashes(split_line) # {}
    /\ LET p == MinOf(UnquotedHashes(split_line))
       IN  /\ split_ret.code_part # <<>>
           /\ split_ret.code_part # Before(split_line, p)
           /\ split_ret.comment_part # <<>>
           /\ split_ret.comment_part # LStrip(After(split_line, p))
           /\ split_ret.comment_part # RStrip(After(split_line, p))

(***************************************************************************)
(* translate_file: what the claims speak of.                               *)
(***************************************************************************)
\* the last call of translate_file ran its loop to the end and returned
LoopFinished == pc = "ret" /\ run >= 1 /\ io_error # "read"

SpanSet == {spans[k] : k \in 1..Len(spans)}
CallSet == {calls[k] : k \in 1..Len(calls)}
\* the input lines of a region and what the loop emitted for it
RegionIn(sp) == SubSeq(lines, sp.s, sp.e)
RegionOut(sp) == SubSeq(translated_lines, sp.o, sp.o + sp.n - 1)
LeadingSpace(line) == SubSeq(line, 1, IndentOf(line))
HasAlpha(text) == \E k \in 1..Len(text) : IsAlpha(text[k])

RECURSIVE NonBlank(_)
NonBlank(ls) ==
    IF ls = <<>> THEN <<>>
    ELSE (IF Strip(Head(ls)) # <<>> THEN <<Head(ls)>> ELSE <<>>) \o NonBlank(Tail(ls))

\* each text of tl occurs in a line of ol, in order and on lines of their own
RECURSIVE KeptInOrder(_, _)
KeptInOrder(tl, ol) ==
    IF tl = <<>> THEN TRUE
    ELSE IF ol = <<>> THEN FALSE
    ELSE IF Contains(Head(ol), Head(tl)) THEN KeptInOrder(Tail(tl), Tail(ol))
    ELSE KeptInOrder(tl, Tail(ol))

\* C1: when the file ends inside a multi-line block, the output holds the
\* opening line and every accumulated line verbatim and in order (they are the
\* last lines of the output, as they are of the input), and the backend was
\* not called for the block.
C1_UnterminatedBlockKept ==
    (LoopFinished /\ in_docstring) =>
        LET n == Len(docstring_lines)
            m == Len(translated_lines)
        IN  /\ m >= n
            /\ SubSeq(translated_lines, m - n + 1, m) = docstring_lines
            /\ \A c \in CallSet : c.line < docstring_start_idx

\* C2: with the stub backend, a call of translate_file whose input is the
\* output of the call before it changes nothing and calls the backend never.
C2_Idempotent ==
    (stub /\ LoopFinished /\ run >= 2 /\ original_content = prev_content) =>
        (translated_content = original_content /\ calls = <<>>)

\* C3: a span whose backend result is empty or is the span's own text is not
\* applied: its lines are in the output verbatim.
C3_EmptyOrIdenticalKeepsLines ==
    \A sp \in SpanSet :
        (sp.call /\ sp.resp.kind = "ok" /\ sp.resp.content \in {<<>>, sp.text})
            => RegionOut(sp) = RegionIn(sp)

\* C4: a span whose text is empty, shorter than 3 visible characters or without
\* a letter is never sent to the backend and its lines are in the output
\* untouched.
C4_RejectedSpanUntouched ==
    \A sp \in SpanSet :
        (sp.kind # "pass" /\ (sp.text = <<>> \/ Len(Strip(sp.text)) < MinVisible \/ ~HasAlpha(sp.text)))
            => (~sp.call /\ RegionOut(sp) = RegionIn(sp))

\* C5: a failed backend call never ends translate_file: the file is marked
\* failed only by an I/O error, the text of a span whose call failed is in the
\* output (each of its non-blank lines, in order), and once the call has
\* returned every line of the file was consumed by a region or by the block
\* still open.
C5_BackendFailureContained ==
    /\ result = "False" => io_error \in {"read", "write"}
    /\ \A sp \in SpanSet :
           sp.resp.kind = "failed" => KeptInOrder(NonBlank(Split(sp.text, NL)), RegionOut(sp))
    /\ LoopFinished =>
           /\ i = Len(lines) + 1
           /\ \A idx \in 1..Len(lines) :
                  \/ \E sp \in SpanSet : sp.s <= idx /\ idx <= sp.e
                  \/ in_docstring /\ idx >= docstring_start_idx

\* a returned call, not failed, in which a backend call failed for a multi-line
\* span whose text is in the output and a later line was processed after it
C5_Witness ==
    /\ LoopFinished
    /\ result = "True"
    /\ \E k \in 1..(Len(spans) - 1) :
           /\ spans[k].resp.kind = "failed"
           /\ spans[k].kind = "docmulti"
           /\ spans[k + 1].call

\* C6: a line scanned outside a block whose trailing comment holds a Chinese
\* character causes no backend call and is in the output as it was, and no
\* backend call ever carries a Chinese character.
ScannedIdle(idx) ==
    \/ \E sp \in SpanSet : sp.s = idx
    \/ in_docstring /\ idx = docstring_start_idx

C6_ChineseCommentUntouched ==
    /\ \A c \in CallSet : ~_contains_chinese(c.text)
    /\ LoopFinished =>
           \A idx \in 1..Len(lines) :
               (ScannedIdle(idx) /\ _contains_chinese(_split_code_comment(lines[idx]).comment_part))
                   => \E sp \in SpanSet :
                          /\ sp.s = idx
                          /\ ~sp.call
                          /\ translated_lines[sp.o] = lines[idx]

\* C7: the line written for a translated inline comment or single-line
\* docstring starts with the leading whitespace of the original line.
C7_IndentPreserved ==
    \A sp \in SpanSet :
        (sp.kind \in {"comment", "docsingle"} /\ sp.call /\ sp.resp.kind = "ok"
             /\ sp.resp.content \notin {<<>>, sp.text})
            => LeadingSpace(translated_lines[sp.o]) = LeadingSpace(lines[sp.s])

(***************************************************************************)
(* The regions of the scan.                                                *)
(***************************************************************************)
\* the last input line and the last output line the emitted regions cover
Covered == IF spans = <<>> THEN 0 ELSE spans[Len(spans)].e
Emitted == IF spans = <<>> THEN 0 ELSE spans[Len(spans)].o + spans[Len(spans)].n - 1

\* C11: every line index the loop has consumed lies in exactly one region: a
\* one-line region emitted outside a block, the range of one closed block, or
\* the block that is open.  The ranges of the emitted regions follow one
\* another without gap or overlap, and so do their places in the output, in
\* the same order; every output line belongs to one region.
C11_SpansPartitionTheLines ==
    /\ \A k \in 1..Len(spans) :
          LET sp == spans[k]
              pe == IF k = 1 THEN 0 ELSE spans[k - 1].e
              po == IF k = 1 THEN 0 ELSE spans[k - 1].o + spans[k - 1].n - 1
          IN  /\ sp.s = pe + 1
              /\ sp.s <= sp.e
              /\ sp.e <= Len(lines)
              /\ sp.kind # "docmulti" => sp.e = sp.s
              /\ sp.o = po + 1
    /\ Len(translated_lines) = Emitted
    /\ IF in_docstring
       THEN docstring_start_idx = Covered + 1 /\ docstring_start_idx <= i - 1
       ELSE i - 1 = Covered
    /\ LoopFinished => i - 1 = Len(lines)

\* a finished scan where a rewritten block of another length than its source
\* range is followed by an inline comment
C11_Witness ==
    /\ LoopFinished
    /\ \E k \in 1..(Len(spans) - 1) :
          /\ spans[k].kind = "docmulti"
          /\ spans[k].n # spans[k].e - spans[k].s + 1
          /\ spans[k + 1].kind = "comment"


\* a span the eligibility gate lets through to the backend
Eligible(sp) == sp.text # <<>> /\ ~GateRejects(sp.text)

\* a line scanned outside a block that neither starts (stripped) with a
\* triple-quote delimiter nor holds an unquoted '#'
PlainLine(sp) ==
    \/ sp.kind = "pass"
    \/ sp.kind = "comment" /\ UnquotedHashes(lines[sp.s]) = {}

\* every plain line scanned outside a block is emitted unchanged
PlainLinesUnchanged == \A sp \in SpanSet : PlainLine(sp) => RegionOut(sp) = RegionIn(sp)

\* C12: every plain line scanned outside a block is emitted unchanged, and,
\* with the stub backend answering a fixed Chinese string, the only regions
\* whose output differs from their input are eligible spans.
C12_OnlyEligibleSpansChange ==
    /\ PlainLinesUnchanged
    /\ (stub /\ LoopFinished) =>
           \A sp \in SpanSet : RegionOut(sp) # RegionIn(sp) => Eligible(sp)


(***************************************************************************)
(* The batch.                                                              *)
(***************************************************************************)
\* C13: a step changes the content of a file on disk only if it is the write
\* of translate_file on that very file, outside a dry run, with transformed
\* content that differs from the content read; a write that completes leaves
\* exactly the transformed content (one that raises leaves the file as
\* open(file_path, 'w') left it).  A call that returns True outside a dry run
\* leaves the transformed content on disk, a call in a dry run leaves the
\* disk as it was.
C13_WriteDiscipline ==
    [][ /\ DOMAIN disk' = DOMAIN disk
        /\ \A p \in DOMAIN disk :
              disk'[p] # disk[p] =>
                  /\ p = file_path
                  /\ LoopDone
                  /\ ~dry_run
                  /\ translated_content' # original_content
                  /\ \/ result' = "True" /\ disk'[p] = translated_content'
                     \/ result' = "False" /\ io_error' = "write" /\ disk'[p] = <<>>
        /\ (LoopDone /\ result' = "True" /\ ~dry_run)
              => disk'[file_path] = translated_content'
        /\ (LoopDone /\ dry_run) => disk' = disk
      ]_vars

\* translate_file has returned from rewriting the first of two files, and
\* the second file is as it was
C13_Witness ==
    /\ main_pc = "call" /\ pc = "ret" /\ result = "True"
    /\ Len(disk) = 2 /\ file_path = 1
    /\ ~dry_run
    /\ disk[1] = translated_content /\ disk[1] # disk0[1]
    /\ disk[2] = disk0[2]


\* the files main has finished, and whether it is inside a call
Finished == Len(done_log)
InCall == IF main_pc = "call" THEN 1 ELSE 0

BatchOrderAndTally ==
    /\ \A k \in 1..Finished : done_log[k].path = python_files[k]
    /\ Finished <= Len(python_files)
    /\ run = Finished + InCall
    /\ main_pc = "call" => file_path = python_files[Finished + 1]
    /\ success_count + fail_count = Finished
    /\ fail_count = Cardinality({k \in 1..Finished : done_log[k].io_error # "none"})
    /\ main_pc = "done" => Finished = Len(python_files)

BatchEnded == main_pc \in {"done", "exit0"}

\* C14: main calls translate_file on every file of the list once, in list
\* order, whatever read and write errors occur, and ends; when it ends
\* success_count + fail_count is the number of files and fail_count the number
\* of files whose processing raised an I/O error.
C14_BatchProgress == []BatchOrderAndTally /\ <>BatchEnded

\* a batch of two files has ended: the first file failed, the second succeeded
C14_Witness ==
    /\ main_pc = "done"
    /\ Len(python_files) = 2
    /\ done_log[1].io_error # "none"
    /\ done_log[2].io_error = "none"
    /\ fail_count = 1 /\ success_count = 1


FinishedPaths == {done_log[k].path : k \in 1..Finished}

\* C15: when the process is killed, every file that translate_file finished
\* without an error outside a dry run holds its complete transformed content,
\* and every other file holds its complete original content or, for the file
\* in progress, its complete transformed content: no file is empty or
\* partially written.  (A file whose write raised is not spoken of.)
C15_KillLeavesWholeFiles ==
    main_pc = "killed" =>
        /\ \A k \in 1..Finished :
              (done_log[k].io_error = "none" /\ ~done_log[k].dry_run)
                  => disk[done_log[k].path] = done_log[k].content
        /\ \A p \in DOMAIN disk \ FinishedPaths :
              \/ disk[p] = disk0[p]
              \/ p = file_path /\ run = Finished + 1 /\ io_error = "write"
              \/ /\ p = file_path
                 /\ run = Finished + 1
                 /\ i > Len(lines)
                 /\ disk[p] = Join(translated_lines, NL)


(***************************************************************************)
(* Docstrings.                                                             *)
(***************************************************************************)
\* the triple-quote delimiter a stripped line starts with
FlavorOf(stripped) == IF StartsWith(stripped, DQ3) THEN DQ3 ELSE SQ3

\* C16: the delimiter recorded for an open block is the triple-quote
\* delimiter the stripped opening line starts with, also when the other
\* flavor occurs later on that line; the line that closed a block holds the
\* flavor its opening line starts with; and a line was taken as a single-line
\* docstring exactly when that same flavor occurs in it at least twice and it
\* is longer than the two delimiters.
C16_DelimiterIsOpeningFlavor ==
    /\ in_docstring =>
           /\ docstring_delimiter = FlavorOf(Strip(lines[docstring_start_idx]))
           /\ ~IsSingleLineDoc(Strip(lines[docstring_start_idx]), docstring_delimiter)
    /\ \A sp \in SpanSet :
           LET first == Strip(lines[sp.s])
           IN  /\ sp.kind = "docmulti" =>
                      /\ Contains(Strip(lines[sp.e]), FlavorOf(first))
                      /\ ~(Count(first, FlavorOf(first)) >= 2 /\ Len(first) > DelimPairLen)
               /\ sp.kind = "docsingle" =>
                      Count(first, FlavorOf(first)) >= 2 /\ Len(first) > DelimPairLen


\* the stripped line m holds the active delimiter
HoldsDelimiter(m) == Contains(Strip(lines[m]), docstring_delimiter)

\* C17: no line of an open block after its opening line holds the active
\* delimiter; a closed block ends at the first line after its opening line
\* that holds the active delimiter; its range is covered by one multi-line
\* region and by no other region; and the scanner is outside the block for
\* the line after it.
C17_BlockEndsAtFirstDelimiterLine ==
    /\ (pc = "loop" /\ in_docstring) =>
           \A m \in (docstring_start_idx + 1)..(i - 1) : ~HoldsDelimiter(m)
    /\ \A k \in 1..Len(spans) :
           spans[k].kind = "docmulti" =>
               /\ spans[k].s < spans[k].e
               /\ (pc = "loop" /\ i = spans[k].e + 1) =>
                      /\ ~in_docstring
                      /\ k = Len(spans)
                      /\ HoldsDelimiter(spans[k].e)
                      /\ \A m \in (spans[k].s + 1)..(spans[k].e - 1) : ~HoldsDelimiter(m)
               /\ \A k2 \in 1..Len(spans) :
                      k2 # k => spans[k2].e < spans[k].s \/ spans[k2].s > spans[k].e

\* a block of three lines has just been closed: its middle line holds the
\* other triple-quote delimiter
C17_Witness ==
    /\ pc = "loop" /\ ~in_docstring
    /\ Len(spans) = 1 /\ spans[1].kind = "docmulti"
    /\ spans[1].s = 1 /\ spans[1].e = 3 /\ i = 4
    /\ docstring_delimiter = DQ3
    /\ Contains(Strip(lines[2]), SQ3)


\* the position of the first occurrence of sub in s at or after position k
RECURSIVE FirstAt(_, _, _)
FirstAt(s, sub, k) ==
    IF k > Len(s) THEN 0
    ELSE IF OccursAt(s, sub, k) THEN k
    ELSE FirstAt(s, sub, k + 1)

\* the text between the first two occurrences of delimiter d in a stripped
\* line that starts with d and holds it twice
BetweenDelimiters(stripped, d) ==
    SubSeq(stripped, Len(d) + 1, FirstAt(stripped, d, Len(d) + 1) - 1)

\* C18: a line scanned outside a block whose stripped form starts with a
\* triple-quote delimiter, holds that delimiter at least twice and is longer
\* than the two delimiters gives one single-line docstring region and opens no
\* block; the content of the region is the text between the first two
\* occurrences of the delimiter.
C18_SingleLineDocContent ==
    \A idx \in 1..Len(lines) :
        LET stripped == Strip(lines[idx])
            d == FlavorOf(stripped)
        IN  (/\ ScannedIdle(idx)
             /\ IsDocStart(stripped)
             /\ Count(stripped, d) >= 2
             /\ Len(stripped) > DelimPairLen)
                => /\ ~(in_docstring /\ idx = docstring_start_idx)
                   /\ \E sp \in SpanSet :
                         /\ sp.s = idx /\ sp.e = idx
                         /\ sp.kind = "docsingle"
                         /\ sp.text = BetweenDelimiters(stripped, d)


\* the text translate_text returned for the backend's answer
TranslatedText(sp) == StripChars(Strip(sp.resp.content), {DQ, SQ})

\* the closed block is the last region, at the step after its closing line
JustClosed(sp) ==
    /\ pc = "loop" /\ ~in_docstring
    /\ spans # <<>> /\ sp = spans[Len(spans)]
    /\ sp.kind = "docmulti" /\ i = sp.e + 1

\* C19: the lines written for a closed block whose translation is applied
\* are: the block's delimiter alone behind the indent of the block, then every
\* line of the translated text that is not blank, in order and each behind
\* that indent, then the delimiter alone behind that indent.  The indent is as
\* many spaces as the opening line has leading whitespace characters.
C19_BlockRewriteFormat ==
    \A sp \in SpanSet :
        (JustClosed(sp) /\ sp.call /\ sp.resp.kind = "ok" /\ TranslatedText(sp) # <<>>)
            => LET ind == Spaces(Len(LeadingSpace(lines[sp.s])))
                   body == NonBlank(Split(TranslatedText(sp), NL))
               IN  RegionOut(sp) = <<ind \o docstring_delimiter>>
                                   \o [k \in 1..Len(body) |-> ind \o body[k]]
                                   \o <<ind \o docstring_delimiter>>

\* an indented block has been rewritten with a translation of three lines, the
\* middle one empty: four lines were written
C19_Witness ==
    \E sp \in SpanSet :
        /\ JustClosed(sp) /\ sp.call /\ sp.resp.kind = "ok"
        /\ Len(Split(TranslatedText(sp), NL)) = 3
        /\ IndentOf(lines[sp.s]) > 0
        /\ sp.n = 4


\* input lines and output lines of the closed blocks among the first k regions
RECURSIVE BlockIn(_)
BlockIn(k) ==
    IF k = 0 THEN 0
    ELSE BlockIn(k - 1)
         + (IF spans[k].kind = "docmulti" THEN spans[k].e - spans[k].s + 1 ELSE 0)

RECURSIVE BlockOut(_)
BlockOut(k) ==
    IF k = 0 THEN 0
    ELSE BlockOut(k - 1) + (IF spans[k].kind = "docmulti" THEN spans[k].n ELSE 0)

\* a block is open: lines after the last emitted region have been consumed
BlockIsOpen == i - 1 > Covered

\* C20: at every step of the loop in_docstring is true exactly when a block is
\* open; then docstring_delimiter is one of the two triple-quote delimiters
\* and docstring_lines holds the input lines from docstring_start_idx to the
\* last line consumed, in order, at least one; and while in_docstring is false
\* translated_lines holds one element for every line consumed outside a block.
C20_ScannerState ==
    pc = "loop" =>
        /\ in_docstring <=> BlockIsOpen
        /\ in_docstring =>
               /\ docstring_delimiter \in {DQ3, SQ3}
               /\ docstring_lines # <<>>
               /\ docstring_start_idx \in 1..(i - 1)
               /\ docstring_lines = SubSeq(lines, docstring_start_idx, i - 1)
        /\ ~in_docstring =>
               Len(translated_lines) - BlockOut(Len(spans)) = (i - 1) - BlockIn(Len(spans))

\* a block opened at the second line, after a line scanned outside it, has
\* taken in a further line
C20_Witness ==
    /\ pc = "loop" /\ in_docstring
    /\ docstring_start_idx = 2 /\ i = 4
    /\ Len(docstring_lines) = 2
    /\ Len(translated_lines) = 1


====
